---- MODULE Spec2Model ----
(***************************************************************************)
(* Model of torch/_prims/executor.py: the trace executor dispatcher        *)
(* execute() with its nvFuser lowering path, and the argument              *)
(* canonicalizer / adapter of make_traced()._traced.                       *)
(***************************************************************************)
EXTENDS Integers, Sequences, FiniteSets, TLC

(* ---------------- bounds ---------------- *)
MaxParams == 3
MaxKw == 2
MaxArgs == 2
MaxNest == 2
MaxNodes == 2

VARIABLES
  (* make_traced._traced *)
  tpc, sig, targs, tkwargs, nargs, fn_kwargs, all_args, fn_args, wkwargs,
  (* execute *)
  pc, executor, cuda, args, kwargs, gm, nv_in, env, cur, flat_out, oi,
  scope, raised, msg, log, buffers

tvars == <<tpc, sig, targs, tkwargs, nargs, fn_kwargs, all_args, fn_args, wkwargs>>
evars == <<pc, executor, cuda, args, kwargs, gm, nv_in, env, cur, flat_out, oi,
           scope, raised, msg, log, buffers>>
vars == <<tvars, evars>>

(* ---------------- ordered dictionaries (Python dict) ---------------- *)
(* A dict is a sequence of [key, val] records in insertion order, keys unique. *)
DictKeys(d) == [i \in 1..Len(d) |-> d[i].key]
DictValues(d) == [i \in 1..Len(d) |-> d[i].val]
KeySet(d) == {d[i].key : i \in 1..Len(d)}
DictGet(d, k) == d[CHOOSE i \in 1..Len(d) : d[i].key = k].val
DictSet(d, k, v) ==
  IF k \in KeySet(d)
  THEN [i \in 1..Len(d) |-> IF d[i].key = k THEN [key |-> k, val |-> v] ELSE d[i]]
  ELSE Append(d, [key |-> k, val |-> v])

Min(a, b) == IF a < b THEN a ELSE b

(* dict(zip(ks, vs)): pairs up to the shorter length, a later duplicate key
   overwriting the value of the earlier one *)
RECURSIVE DictOfZip(_, _, _, _)
DictOfZip(d, ks, vs, i) ==
  IF i > Min(Len(ks), Len(vs)) THEN d
  ELSE DictOfZip(DictSet(d, ks[i], vs[i]), ks, vs, i + 1)

(* ---------------- make_traced._traced ---------------- *)
ParamName(i) == <<"a", "b", "c", "d", "e">>[i]
ExtraName == "z"
PosValue(i) == 10 + i
KwValue(name) == IF name = ExtraName THEN 29
                 ELSE 20 + (CHOOSE i \in 1..(MaxParams + 1) : ParamName(i) = name)
DefaultValue(i) == 30 + i
Empty == 0

Signatures ==
  UNION { { [i \in 1..n |-> [name |-> ParamName(i), has_default |-> hd[i],
                              default |-> IF hd[i] THEN DefaultValue(i) ELSE Empty]]
            : hd \in [1..n -> BOOLEAN] } : n \in 0..MaxParams }

KwNames == {ParamName(i) : i \in 1..MaxParams} \cup {ExtraName}

RECURSIVE DistinctSeqs(_, _)
DistinctSeqs(S, n) ==
  IF n = 0 THEN {<<>>}
  ELSE LET shorter == DistinctSeqs(S, n - 1)
       IN  shorter \cup { Append(s, x) : s \in {t \in shorter : Len(t) = n - 1},
                                         x \in S }

KwCalls ==
  { [i \in 1..Len(ns) |-> [key |-> ns[i], val |-> KwValue(ns[i])]] :
      ns \in {s \in DistinctSeqs(KwNames, MaxKw) :
                 \A i, j \in 1..Len(s) : i # j => s[i] # s[j]} }

(* lines 113-115 running after the defaults instead of before them: the
   caller's keywords are looked at last-to-first *)
RECURSIVE CopyKwargs_Reversed(_, _, _)
CopyKwargs_Reversed(d, kw, i) ==
  IF i > Len(kw) THEN d
  ELSE DictSet(CopyKwargs_Reversed(d, kw, i + 1), kw[i].key, kw[i].val)

(* lines 113-115: fn_kwargs = {}; for k, v in kwargs.items(): fn_kwargs[k] = v *)
RECURSIVE CopyKwargs(_, _, _)
CopyKwargs(d, kw, i) ==
  IF i > Len(kw) THEN d
  ELSE CopyKwargs(DictSet(d, kw[i].key, kw[i].val), kw, i + 1)

(* the loop of lines 124-128 without the test "name not in fn_kwargs": a
   declared default overwrites the value the caller passed by keyword *)
RECURSIVE PopulateDefaults_Overwrite(_, _, _, _)
PopulateDefaults_Overwrite(d, s, n, i) ==
  IF i > Len(s) THEN d
  ELSE IF i - 1 < n THEN PopulateDefaults_Overwrite(d, s, n, i + 1)
  ELSE IF s[i].has_default
       THEN PopulateDefaults_Overwrite(DictSet(d, s[i].name, s[i].default), s, n, i + 1)
       ELSE PopulateDefaults_Overwrite(d, s, n, i + 1)

(* lines 124-128: the loop over sig.parameters.items() *)
RECURSIVE PopulateDefaults(_, _, _, _)
PopulateDefaults(d, s, n, i) ==
  IF i > Len(s) THEN d
  ELSE IF i - 1 < n THEN PopulateDefaults(d, s, n, i + 1)
  ELSE IF s[i].has_default /\ s[i].name \notin KeySet(d)
       THEN PopulateDefaults(DictSet(d, s[i].name, s[i].default), s, n, i + 1)
       ELSE PopulateDefaults(d, s, n, i + 1)

DeclIndex(name) == CHOOSE i \in 1..(MaxParams + 1) : ParamName(i) = name
IsDeclaredName(name) == \E i \in 1..(MaxParams + 1) : ParamName(i) = name

(* the keys of d that are parameter names, in declaration order, then the rest *)
RECURSIVE KeysFrom(_, _)
KeysFrom(d, i) ==
  IF i > MaxParams + 1 THEN <<>>
  ELSE (IF ParamName(i) \in KeySet(d) THEN <<ParamName(i)>> ELSE <<>>) \o KeysFrom(d, i + 1)

kwargs_keys_declared(d) ==
  KeysFrom(d, 1) \o SelectSeq(DictKeys(d), LAMBDA k : ~IsDeclaredName(k))

(* line 136: kwargs_keys = list(fn_kwargs.keys()) *)
kwargs_keys(d) == DictKeys(d)

TracedInit ==
  /\ tpc = "call"
  /\ sig \in Signatures
  /\ \E n \in 0..MaxParams : targs = [i \in 1..n |-> PosValue(i)]
  /\ tkwargs \in KwCalls
  /\ nargs = 0
  /\ fn_kwargs = <<>>
  /\ all_args = <<>>
  /\ fn_args = <<>>
  /\ wkwargs = <<>>
  /\ pc = "idle"
  /\ executor = "aten"
  /\ cuda = FALSE
  /\ args = <<>>
  /\ kwargs = <<>>
  /\ gm = [nodes |-> <<>>, out |-> <<>>]
  /\ nv_in = <<>>
  /\ env = <<>>
  /\ cur = 1
  /\ flat_out = <<>>
  /\ oi = 1
  /\ scope = "none"
  /\ raised = "none"
  /\ msg = [name |-> "", allowed |-> <<>>]
  /\ log = <<>>
  /\ buffers = <<>>

(* lines 112-131 *)
Canonicalize ==
  /\ tpc = "call"
  /\ nargs' = Len(targs)
  /\ fn_kwargs' = PopulateDefaults(CopyKwargs(<<>>, tkwargs, 1), sig, Len(targs), 1)
  /\ all_args' = targs \o DictValues(fn_kwargs')
  /\ tpc' = "canon"
  /\ UNCHANGED <<sig, targs, tkwargs, fn_args, wkwargs>>
  /\ UNCHANGED evars

(* lines 134-138: the adapter, applied by make_fx to all_args at line 141 *)
Wrapped ==
  /\ tpc = "canon"
  /\ fn_args' = SubSeq(all_args, 1, Min(nargs, Len(all_args)))
  /\ wkwargs' = DictOfZip(<<>>, kwargs_keys(fn_kwargs),
                          SubSeq(all_args, nargs + 1, Len(all_args)), 1)
  /\ tpc' = "wrapped"
  /\ UNCHANGED <<sig, targs, tkwargs, nargs, fn_kwargs, all_args>>
  /\ UNCHANGED evars

(* ---------------- execute: values ---------------- *)
(* A leaf or a backend handle is a record [kind, id]:
     tensor  a torch.Tensor            number  a Python Number
     tv      a define_tensor handle    const   a define_constant handle
     val     the result of a lowering rule
     list    a nested argument passed through whole
     fd      the FusionDefinition context                                  *)
Leaf(k, i) == [kind |-> k, id |-> i]
Scalar == Leaf("number", 2)
FdHandle == Leaf("fd", 0)
NoLeaf == Leaf("none", 0)

(* an argument is a tensor, a number, or a list of MaxNest tensors *)
ArgShapes ==
  {[nested |-> FALSE, kinds |-> <<"tensor">>],
   [nested |-> FALSE, kinds |-> <<"number">>],
   [nested |-> TRUE, kinds |-> [j \in 1..MaxNest |-> "tensor"]]}

MkArg(shape, i) ==
  [nested |-> shape.nested,
   leaves |-> [j \in 1..Len(shape.kinds) |->
                 IF shape.kinds[j] = "tensor" THEN Leaf("tensor", 10 * i + j)
                 ELSE Scalar]]

ArgTuples ==
  UNION { { [i \in 1..n |-> MkArg(f[i], i)] : f \in [1..n -> ArgShapes] }
          : n \in 0..MaxArgs }

KwargDicts ==
  {<<>>,
   <<[key |-> "b", val |-> [nested |-> FALSE, leaves |-> <<Leaf("tensor", 100)>>]]>>}

ValidExecutors == {"aten", "nvfuser"}
InvalidExecutors == {"eager", "ATen"}
Executors == ValidExecutors \cup InvalidExecutors

(* ---------------- execute: the graph module ---------------- *)
Ref(r, i) == [ref |-> r, i |-> i]
Lit == Ref("lit", 2)

(* A node is op(x, y) or op(x, alpha=Lit): x is the previous node's result
   (the first graph input for the first node), y a literal or the second
   input; an operation without impl_nvfuser is called as op(x, Lit). *)
FirstRefs(k, na) ==
  IF k > 1 THEN {Ref("node", k - 1)}
  ELSE IF na >= 1 THEN {Ref("in", 1)} ELSE {Lit}

SecondRefs(na) == {Lit} \cup (IF na >= 2 THEN {Ref("in", 2)} ELSE {})

NodesAt(k, na) ==
  { [lowerable |-> TRUE, args |-> <<x, y>>, kw |-> <<>>] :
      x \in FirstRefs(k, na), y \in SecondRefs(na) }
  \cup
  { [lowerable |-> TRUE, args |-> <<x>>, kw |-> <<Lit>>] : x \in FirstRefs(k, na) }
  \cup
  { [lowerable |-> FALSE, args |-> <<x, Lit>>, kw |-> <<>>] : x \in FirstRefs(k, na) }

RECURSIVE NodeSeqs(_, _)
NodeSeqs(n, na) ==
  IF n = 0 THEN {<<>>}
  ELSE { Append(s, nd) : s \in NodeSeqs(n - 1, na), nd \in NodesAt(n, na) }

OutsFor(n, na) ==
  IF n > 0 THEN {<<Ref("node", n)>>, <<Ref("node", n), Lit>>}
  ELSE {<<Lit>>} \cup (IF na >= 1 THEN {<<Ref("in", 1)>>} ELSE {})

Graphs(na) ==
  UNION { { [nodes |-> ns, out |-> o] : ns \in NodeSeqs(n, na), o \in OutsFor(n, na) }
          : n \in 0..MaxNodes }

(* ---------------- execute: state ---------------- *)
NoMsg == [name |-> "", allowed |-> <<>>]
Event(op, h, a, kw) == [op |-> op, h |-> h, a |-> a, kw |-> kw]

Init ==
  /\ tpc = "idle"
  /\ sig = <<>>
  /\ targs = <<>>
  /\ tkwargs = <<>>
  /\ nargs = 0
  /\ fn_kwargs = <<>>
  /\ all_args = <<>>
  /\ fn_args = <<>>
  /\ wkwargs = <<>>
  /\ pc = "call"
  /\ executor \in Executors
  /\ cuda \in BOOLEAN
  /\ args \in ArgTuples
  /\ kwargs \in KwargDicts
  /\ gm \in Graphs(Len(args))
  /\ nv_in = <<>>
  /\ env = <<>>
  /\ cur = 1
  /\ flat_out = <<>>
  /\ oi = 1
  /\ scope = "none"
  /\ raised = "none"
  /\ msg = NoMsg
  /\ log = <<>>
  /\ buffers = <<>>

(* tree_flatten order of the leaves of args, then of kwargs (lines 64-65) *)
RECURSIVE FlatLeaves(_, _)
FlatLeaves(as, i) ==
  IF i > Len(as) THEN <<>> ELSE as[i].leaves \o FlatLeaves(as, i + 1)

CallLeaves == FlatLeaves(args, 1) \o FlatLeaves(DictValues(kwargs), 1)

RECURSIVE Offset(_, _)
Offset(as, i) == IF i <= 1 THEN 0 ELSE Offset(as, i - 1) + Len(as[i - 1].leaves)

(* isinstance(arg, torch.Tensor) / isinstance(arg, Number) *)
IsTensor(l) == l.kind = "tensor"
IsNumber(l) == l.kind = "number"

(* line 25 written as a fall-through: every name but "nvfuser" runs the graph *)
DirectExecute_Fallthrough ==
  /\ pc = "call"
  /\ executor # "nvfuser"
  /\ log' = Append(log, Event("forward", NoLeaf, <<>>, <<>>))
  /\ pc' = "done"
  /\ UNCHANGED tvars
  /\ UNCHANGED <<executor, cuda, args, kwargs, gm, nv_in, env, cur, flat_out, oi,
                 scope, raised, msg, buffers>>

(* lines 25-26 *)
DirectExecute ==
  /\ pc = "call"
  /\ executor = "aten"
  /\ log' = Append(log, Event("forward", NoLeaf, <<>>, <<>>))
  /\ pc' = "done"
  /\ UNCHANGED tvars
  /\ UNCHANGED <<executor, cuda, args, kwargs, gm, nv_in, env, cur, flat_out, oi,
                 scope, raised, msg, buffers>>

(* lines 27-31 *)
FusionUnavailable ==
  /\ pc = "call"
  /\ executor = "nvfuser"
  /\ ~cuda
  /\ raised' = "RuntimeError"
  /\ pc' = "done"
  /\ UNCHANGED tvars
  /\ UNCHANGED <<executor, cuda, args, kwargs, gm, nv_in, env, cur, flat_out, oi,
                 scope, msg, log, buffers>>

(* lines 25, 27, 78-81 *)
InvalidExecutor ==
  /\ pc = "call"
  /\ executor # "aten"
  /\ executor # "nvfuser"
  /\ raised' = "ValueError"
  /\ msg' = [name |-> executor, allowed |-> <<"aten", "nvfuser">>]
  /\ pc' = "done"
  /\ UNCHANGED tvars
  /\ UNCHANGED <<executor, cuda, args, kwargs, gm, nv_in, env, cur, flat_out, oi,
                 scope, log, buffers>>

(* line 36 reached without the availability test of line 28 *)
CreateFusion_Unchecked ==
  /\ pc = "call"
  /\ executor = "nvfuser"
  /\ log' = Append(log, Event("Fusion", NoLeaf, <<>>, <<>>))
  /\ \E ok \in BOOLEAN :
       IF ok THEN pc' = "enter" /\ raised' = raised
       ELSE pc' = "done" /\ raised' = "BackendError"
  /\ UNCHANGED tvars
  /\ UNCHANGED <<executor, cuda, args, kwargs, gm, nv_in, env, cur, flat_out, oi,
                 scope, msg, buffers>>

(* lines 27-28, 36: fusion = Fusion() *)
CreateFusion ==
  /\ pc = "call"
  /\ executor = "nvfuser"
  /\ cuda
  /\ log' = Append(log, Event("Fusion", NoLeaf, <<>>, <<>>))
  /\ \E ok \in BOOLEAN :
       IF ok THEN pc' = "enter" /\ raised' = raised
       ELSE pc' = "done" /\ raised' = "BackendError"
  /\ UNCHANGED tvars
  /\ UNCHANGED <<executor, cuda, args, kwargs, gm, nv_in, env, cur, flat_out, oi,
                 scope, msg, buffers>>

(* line 37: with FusionDefinition(fusion) as fd *)
EnterScope ==
  /\ pc = "enter"
  /\ log' = Append(log, Event("enter", FdHandle, <<>>, <<>>))
  /\ scope' = "open"
  /\ pc' = "define"
  /\ UNCHANGED tvars
  /\ UNCHANGED <<executor, cuda, args, kwargs, gm, nv_in, env, cur, flat_out, oi,
                 raised, msg, buffers>>

(* the block of line 37 entered without a with statement: an exception
   leaves execute at once *)
OnError_NoWith == "done"

(* the with statement of line 37: an exception raised inside the block runs
   __exit__ before it leaves execute *)
OnError == "unwind"

(* to_nv without the isinstance test of line 53 *)
ToNvRegisters_All(l) == IsTensor(l) \/ IsNumber(l)

(* lines 52-60: to_nv registers a leaf iff it is a torch.Tensor *)
ToNvRegisters(l) == IsTensor(l)

(* lines 52-60, applied by tree_map to one leaf of args / kwargs (lines 64-65) *)
ToNv ==
  /\ pc = "define"
  /\ cur <= Len(CallLeaves)
  /\ LET l == CallLeaves[cur]
         x == Leaf("tv", l.id)
         def == Event("define_tensor", x, <<l>>, <<>>)
         add == Event("add_input", x, <<x>>, <<>>)
     IN  IF ToNvRegisters(l)
         THEN \E outcome \in {"ok", "define_tensor fails", "add_input fails"} :
                /\ log' = IF outcome = "define_tensor fails" THEN Append(log, def)
                          ELSE log \o <<def, add>>
                /\ IF outcome = "ok"
                   THEN /\ nv_in' = Append(nv_in, x)
                        /\ cur' = cur + 1
                        /\ UNCHANGED <<pc, raised>>
                   ELSE /\ raised' = "BackendError"
                        /\ pc' = OnError
                        /\ UNCHANGED <<nv_in, cur>>
         ELSE /\ nv_in' = Append(nv_in, l)
              /\ cur' = cur + 1
              /\ UNCHANGED <<pc, raised, log>>
  /\ UNCHANGED tvars
  /\ UNCHANGED <<executor, cuda, args, kwargs, gm, env, flat_out, oi, scope, msg,
                 buffers>>

(* torch.fx.Interpreter.run: the value a node argument refers to *)
Resolve(r) ==
  IF r.ref = "in"
  THEN IF args[r.i].nested THEN Leaf("list", r.i)
       ELSE nv_in[Offset(args, r.i) + 1]
  ELSE IF r.ref = "node" THEN env[r.i]
  ELSE Scalar

(* lines 39-43 *)
_to_nvfuser_constant(arg, h) == IF IsNumber(arg) THEN h ELSE arg

RECURSIVE ConstantEvents(_, _, _)
ConstantEvents(rargs, k, i) ==
  IF i > Len(rargs) THEN <<>>
  ELSE (IF _to_nvfuser_constant(rargs[i], Leaf("const", 10 * k + i)) # rargs[i]
        THEN <<Event("define_constant", Leaf("const", 10 * k + i), <<rargs[i]>>, <<>>)>>
        ELSE <<>>) \o ConstantEvents(rargs, k, i + 1)

(* lines 46-50: FusionInterpreter.call_function for the next node of the graph,
   called by Interpreter.run (line 66) in the graph's node order *)
LowerNode ==
  /\ pc = "define"
  /\ cur > Len(CallLeaves)
  /\ Len(env) < Len(gm.nodes)
  /\ LET k == Len(env) + 1
         node == gm.nodes[k]
         rargs == [i \in 1..Len(node.args) |-> Resolve(node.args[i])]
         largs == [i \in 1..Len(rargs) |->
                     _to_nvfuser_constant(rargs[i], Leaf("const", 10 * k + i))]
         rkw == [i \in 1..Len(node.kw) |-> Resolve(node.kw[i])]
         consts == ConstantEvents(rargs, k, 1)
         call == Event("lower", Leaf("val", k), <<FdHandle>> \o largs, rkw)
     IN  IF ~node.lowerable
         THEN /\ log' = log \o consts
              /\ raised' = "AttributeError"
              /\ pc' = OnError
              /\ UNCHANGED env
         ELSE /\ log' = (log \o consts) \o <<call>>
              /\ \E ok \in BOOLEAN :
                   IF ok THEN /\ env' = Append(env, Leaf("val", k))
                              /\ UNCHANGED <<pc, raised>>
                   ELSE /\ raised' = "BackendError"
                        /\ pc' = OnError
                        /\ UNCHANGED env
  /\ UNCHANGED tvars
  /\ UNCHANGED <<executor, cuda, args, kwargs, gm, nv_in, cur, flat_out, oi, scope,
                 msg, buffers>>

(* tree_flatten of the value an output reference evaluates to *)
ResolveOut(r) ==
  IF r.ref = "in" /\ args[r.i].nested
  THEN SubSeq(nv_in, Offset(args, r.i) + 1, Offset(args, r.i) + Len(args[r.i].leaves))
  ELSE <<Resolve(r)>>

RECURSIVE FlattenOut(_, _)
FlattenOut(out, i) ==
  IF i > Len(out) THEN <<>> ELSE ResolveOut(out[i]) \o FlattenOut(out, i + 1)

(* lines 66-67: run returns, flat_out, unflatten_spec = tree_flatten(out) *)
FlattenOutput ==
  /\ pc = "define"
  /\ cur > Len(CallLeaves)
  /\ Len(env) = Len(gm.nodes)
  /\ flat_out' = FlattenOut(gm.out, 1)
  /\ oi' = 1
  /\ pc' = "out"
  /\ UNCHANGED tvars
  /\ UNCHANGED <<executor, cuda, args, kwargs, gm, nv_in, env, cur, scope, raised,
                 msg, log, buffers>>

(* the backend's add_output takes a backend handle; any other leaf is rejected *)
AddOutputAccepts(o) == o.kind \in {"tv", "val", "const"}

(* the loop of lines 68-69 registering only the leaves the backend takes *)
AddOutput_Filtered ==
  /\ pc = "out"
  /\ oi <= Len(flat_out)
  /\ IF ~AddOutputAccepts(flat_out[oi])
     THEN /\ oi' = oi + 1
          /\ UNCHANGED <<pc, raised, log>>
     ELSE /\ log' = Append(log, Event("add_output", flat_out[oi], <<flat_out[oi]>>, <<>>))
          /\ \E ok \in BOOLEAN :
               IF ok THEN /\ oi' = oi + 1
                          /\ UNCHANGED <<pc, raised>>
               ELSE /\ raised' = "BackendError"
                    /\ pc' = OnError
                    /\ UNCHANGED oi
  /\ UNCHANGED tvars
  /\ UNCHANGED <<executor, cuda, args, kwargs, gm, nv_in, env, cur, flat_out, scope,
                 msg, buffers>>

(* lines 68-69: one iteration of for o in flat_out: fd.add_output(o) *)
AddOutput ==
  /\ pc = "out"
  /\ oi <= Len(flat_out)
  /\ log' = Append(log, Event("add_output", flat_out[oi], <<flat_out[oi]>>, <<>>))
  /\ IF ~AddOutputAccepts(flat_out[oi])
     THEN /\ raised' = "LoweringError"
          /\ pc' = OnError
          /\ UNCHANGED oi
     ELSE \E ok \in BOOLEAN :
            IF ok THEN /\ oi' = oi + 1
                       /\ UNCHANGED <<pc, raised>>
            ELSE /\ raised' = "BackendError"
                 /\ pc' = OnError
                 /\ UNCHANGED oi
  /\ UNCHANGED tvars
  /\ UNCHANGED <<executor, cuda, args, kwargs, gm, nv_in, env, cur, flat_out, scope,
                 msg, buffers>>

(* line 73: tuple(arg for arg in args if isinstance(arg, torch.Tensor)) *)
RECURSIVE TensorArgs(_, _)
TensorArgs(as, i) ==
  IF i > Len(as) THEN <<>>
  ELSE (IF ~as[i].nested /\ IsTensor(as[i].leaves[1]) THEN <<as[i].leaves[1]>>
        ELSE <<>>) \o TensorArgs(as, i + 1)

(* fusion.execute called as soon as the graph has run, before the loop of
   lines 68-69 has registered the outputs *)
ExecuteFusion_Early ==
  /\ pc = "out"
  /\ buffers' = TensorArgs(args, 1)
  /\ log' = Append(log, Event("execute", NoLeaf, buffers', <<>>))
  /\ \E ok \in BOOLEAN : raised' = IF ok THEN "none" ELSE "ExecuteError"
  /\ pc' = "unwind"
  /\ UNCHANGED tvars
  /\ UNCHANGED <<executor, cuda, args, kwargs, gm, nv_in, env, cur, flat_out, oi,
                 scope, msg>>

(* lines 71-76: fusion.execute(...) and the return through the with block *)
ExecuteFusion ==
  /\ pc = "out"
  /\ oi > Len(flat_out)
  /\ buffers' = TensorArgs(args, 1)
  /\ log' = Append(log, Event("execute", NoLeaf, buffers', <<>>))
  /\ \E ok \in BOOLEAN : raised' = IF ok THEN "none" ELSE "ExecuteError"
  /\ pc' = "unwind"
  /\ UNCHANGED tvars
  /\ UNCHANGED <<executor, cuda, args, kwargs, gm, nv_in, env, cur, flat_out, oi,
                 scope, msg>>

(* line 37: FusionDefinition.__exit__ at the end of the with block *)
ReleaseScope ==
  /\ pc = "unwind"
  /\ scope' = "released"
  /\ log' = Append(log, Event("exit", FdHandle, <<>>, <<>>))
  /\ pc' = "done"
  /\ UNCHANGED tvars
  /\ UNCHANGED <<executor, cuda, args, kwargs, gm, nv_in, env, cur, flat_out, oi,
                 raised, msg, buffers>>

Next ==
  \/ DirectExecute
  \/ FusionUnavailable
  \/ InvalidExecutor
  \/ CreateFusion
  \/ EnterScope
  \/ ToNv
  \/ LowerNode
  \/ FlattenOutput
  \/ AddOutput
  \/ ExecuteFusion
  \/ ReleaseScope

Spec == Init /\ [][Next]_vars

TracedNext ==
  \/ Canonicalize
  \/ Wrapped

SpecTraced == TracedInit /\ [][TracedNext]_vars

(* ======================= make_traced._traced: claims ======================= *)
Canonicalized == tpc \in {"canon", "wrapped"}
Supplied(name) == name \in KeySet(tkwargs)

(* the entries of all_args after the positional prefix that belong to name:
   the k-th trailing entry belongs to the k-th key of fn_kwargs *)
EntriesOf(name) ==
  {k \in 1..Len(fn_kwargs) :
     /\ fn_kwargs[k].key = name
     /\ Len(targs) + k <= Len(all_args)}

Contributes(name, v) ==
  /\ Cardinality(EntriesOf(name)) = 1
  /\ \A k \in EntriesOf(name) : all_args[Len(targs) + k] = v

PositionalPrefixKept ==
  /\ Len(all_args) = Len(targs) + Len(fn_kwargs)
  /\ SubSeq(all_args, 1, Len(targs)) = targs

ResolvedByKeywordOrDefault ==
  \A i \in 1..Len(sig) :
    i - 1 >= Len(targs) =>
      IF Supplied(sig[i].name)
      THEN Contributes(sig[i].name, DictGet(tkwargs, sig[i].name))
      ELSE IF sig[i].has_default THEN Contributes(sig[i].name, sig[i].default)
      ELSE EntriesOf(sig[i].name) = {}

(* C3 as stated: all_args starts with the positional args; a parameter at an
   index >= len(args) contributes the caller's keyword value if supplied, else
   its default if it has one; a parameter at an index < len(args) contributes
   no entry at all. *)
C3_AsStated ==
  Canonicalized =>
    /\ PositionalPrefixKept
    /\ ResolvedByKeywordOrDefault
    /\ \A i \in 1..Len(sig) : i - 1 < Len(targs) => EntriesOf(sig[i].name) = {}

(* C3 amended: as C3, except that a parameter at an index < len(args)
   contributes no default; it contributes one entry, the caller's keyword
   value, exactly when the caller also passed it by keyword. *)
C3_Canonical ==
  Canonicalized =>
    /\ PositionalPrefixKept
    /\ ResolvedByKeywordOrDefault
    /\ \A i \in 1..Len(sig) :
         i - 1 < Len(targs) =>
           IF Supplied(sig[i].name)
           THEN Contributes(sig[i].name, DictGet(tkwargs, sig[i].name))
           ELSE EntriesOf(sig[i].name) = {}

(* f(a, b, c=3) called as f(x, b=y): all_args = [x, y, 3] *)
C3_Witness ==
  /\ tpc = "canon"
  /\ Len(sig) = 3 /\ ~sig[1].has_default /\ ~sig[2].has_default /\ sig[3].has_default
  /\ Len(targs) = 1
  /\ DictKeys(tkwargs) = <<"b">>
  /\ all_args = <<PosValue(1), KwValue("b"), DefaultValue(3)>>

(* the value canonicalization chose for a key of fn_kwargs *)
ChosenValue(name) ==
  IF Supplied(name) THEN DictGet(tkwargs, name)
  ELSE sig[DeclIndex(name)].default

(* C4: the adapter applied to all_args calls fn with the caller's positional
   args as positional prefix and with a keyword dict that binds every
   keyword-resolved name to the value canonicalization chose for that name. *)
C4_AdapterInverts ==
  tpc = "wrapped" =>
    /\ fn_args = targs
    /\ wkwargs = fn_kwargs
    /\ KeySet(wkwargs) = KeySet(tkwargs) \cup
         {sig[i].name : i \in {j \in 1..Len(sig) : j - 1 >= Len(targs) /\ sig[j].has_default}}
    /\ \A name \in KeySet(wkwargs) : DictGet(wkwargs, name) = ChosenValue(name)

(* f(a, b=1, c=2) called as f(x, c=5): the adapter binds c to 5 and b to 1 *)
C4_Witness ==
  /\ tpc = "wrapped"
  /\ Len(sig) = 3 /\ sig[2].has_default /\ sig[3].has_default
  /\ Len(targs) = 1
  /\ DictKeys(tkwargs) = <<"c">>
  /\ fn_args = <<PosValue(1)>>
  /\ DictGet(wkwargs, "c") = KwValue("c")
  /\ DictGet(wkwargs, "b") = DefaultValue(2)

InDeclarationOrder(ks) ==
  \A p, q \in 1..Len(ks) :
    (p < q /\ IsDeclaredName(ks[p]) /\ IsDeclaredName(ks[q]))
      => DeclIndex(ks[p]) < DeclIndex(ks[q])

(* C10 as stated: the trailing entries of all_args, and the keyword names the
   adapter zips against them, are in the declaration order of the parameters. *)
C10_AsStated ==
  /\ Canonicalized => InDeclarationOrder(DictKeys(fn_kwargs))
  /\ tpc = "wrapped" => InDeclarationOrder(DictKeys(wkwargs))

CallerIndex(name) == CHOOSE i \in 1..Len(tkwargs) : tkwargs[i].key = name

CallerThenDefaults(ks) ==
  \A p, q \in 1..Len(ks) :
    p < q =>
      /\ Supplied(ks[q]) => Supplied(ks[p])
      /\ (Supplied(ks[p]) /\ Supplied(ks[q])) => CallerIndex(ks[p]) < CallerIndex(ks[q])
      /\ (~Supplied(ks[p]) /\ ~Supplied(ks[q])) => DeclIndex(ks[p]) < DeclIndex(ks[q])

(* C10 amended: the trailing entries of all_args and the keyword names the
   adapter zips against them are in one and the same order: first the
   caller's keywords in the order the caller wrote them, then the unsupplied
   defaulted parameters in declaration order. *)
C10_InsertionOrder ==
  /\ Canonicalized =>
       /\ CallerThenDefaults(DictKeys(fn_kwargs))
       /\ \A k \in 1..Len(fn_kwargs) : all_args[Len(targs) + k] = fn_kwargs[k].val
  /\ tpc = "wrapped" => DictKeys(wkwargs) = DictKeys(fn_kwargs)

(* f(a, b=1, c=2) called as f(x, c=5): the trailing entries are [5, 1] *)
C10_Witness ==
  /\ tpc = "wrapped"
  /\ Len(sig) = 3 /\ sig[2].has_default /\ sig[3].has_default
  /\ Len(targs) = 1
  /\ DictKeys(tkwargs) = <<"c">>
  /\ all_args = <<PosValue(1), KwValue("c"), DefaultValue(2)>>
  /\ DictKeys(wkwargs) = <<"c", "b">>

(* ============================ execute: claims ============================ *)
EventsOf(op) == {i \in 1..Len(log) : log[i].op = op}
BackendOps == {"Fusion", "enter", "define_tensor", "define_constant", "add_input",
               "lower", "add_output", "execute", "exit"}
BackendEvents == {i \in 1..Len(log) : log[i].op \in BackendOps}

(* C1: a call whose executor name is neither "aten" nor "nvfuser" fails with
   the ValueError that carries the name and the allowed names, and neither
   evaluates the graph nor performs any backend operation. *)
C1_InvalidExecutor ==
  executor \notin {"aten", "nvfuser"} =>
    /\ log = <<>>
    /\ scope = "none"
    /\ pc \in {"call", "done"}
    /\ pc = "done" =>
         /\ raised = "ValueError"
         /\ msg = [name |-> executor, allowed |-> <<"aten", "nvfuser">>]

C1_Witness ==
  /\ pc = "done"
  /\ executor = "eager"
  /\ raised = "ValueError"
  /\ msg.name = "eager"

(* C2: with executor "nvfuser" and no CUDA the call fails with the
   RuntimeError of line 29 before a Fusion or a definition scope exists: no
   backend operation happens and the graph is not run directly. *)
C2_BackendUnavailable ==
  (executor = "nvfuser" /\ ~cuda) =>
    /\ log = <<>>
    /\ scope = "none"
    /\ pc \in {"call", "done"}
    /\ pc = "done" => raised = "RuntimeError"

C2_Witness ==
  /\ pc = "done"
  /\ executor = "nvfuser"
  /\ ~cuda
  /\ raised = "RuntimeError"

NonHandleOutput == \E i \in 1..Len(flat_out) : ~AddOutputAccepts(flat_out[i])

(* C5: in the fusion path, when the flattened output has a leaf that is not a
   backend handle, fusion.execute is never called and the call ends in an
   error: the lowering error raised at that leaf, unless the registration of
   an earlier output had already failed. *)
C5_NonTensorOutput ==
  (pc \in {"out", "unwind", "done"} /\ NonHandleOutput) =>
    /\ EventsOf("execute") = {}
    /\ pc = "done" =>
         /\ raised \in {"LoweringError", "BackendError"}
         /\ raised = "LoweringError" <=>
              \E i \in EventsOf("add_output") :
                 /\ ~AddOutputAccepts(log[i].h)
                 /\ \A j \in EventsOf("add_output") : j <= i

C5_Witness ==
  /\ pc = "done"
  /\ Len(flat_out) = 2
  /\ AddOutputAccepts(flat_out[1])
  /\ flat_out[2] = Scalar
  /\ raised = "LoweringError"
  /\ Cardinality(EventsOf("add_output")) = 2

(* the tensors registered with add_input, in registration order *)
RECURSIVE RegisteredInputs(_)
RegisteredInputs(i) ==
  IF i > Len(log) THEN <<>>
  ELSE (IF log[i].op = "add_input" THEN <<Leaf("tensor", log[i].h.id)>> ELSE <<>>)
       \o RegisteredInputs(i + 1)

(* C6: the buffers passed to fusion.execute are exactly the tensors
   registered with add_input in that call, in the same order. *)
C6_BuffersAreRegisteredInputs ==
  \A i \in EventsOf("execute") : log[i].a = RegisteredInputs(1)

(* C7: add_input is called only on the handle define_tensor has just produced
   for a tensor argument, once per tensor leaf of the arguments and never for
   a scalar; a scalar positional argument of a node reaches the lowering rule
   only as a define_constant handle created at that node. *)
C7_ScalarsAreConstants ==
  LET adds == EventsOf("add_input")
      lowers == EventsOf("lower")
      consts == EventsOf("define_constant")
      leaves == CallLeaves
  IN
  /\ \A i \in adds :
       /\ log[i].h.kind = "tv"
       /\ i > 1
       /\ log[i - 1].op = "define_tensor"
       /\ log[i - 1].h = log[i].h
       /\ IsTensor(log[i - 1].a[1])
  /\ \A j \in 1..Len(nv_in) :
       IF IsTensor(leaves[j])
       THEN Cardinality({i \in adds : log[i].h.id = leaves[j].id}) = 1
       ELSE nv_in[j] = leaves[j]
  /\ Cardinality(adds) <= Cardinality({j \in 1..Len(leaves) : IsTensor(leaves[j])})
  /\ \A i \in lowers :
       LET k == log[i].h.id
           node == gm.nodes[k]
       IN  /\ Len(log[i].a) = Len(node.args) + 1
           /\ \A p \in 1..Len(node.args) :
                LET r == Resolve(node.args[p])
                IN  /\ ~IsNumber(log[i].a[p + 1])
                    /\ IF IsNumber(r)
                       THEN /\ log[i].a[p + 1].kind = "const"
                            /\ \E c \in consts :
                                 /\ c < i
                                 /\ log[c].h = log[i].a[p + 1]
                                 /\ log[c].a = <<r>>
                                 /\ \A m \in lowers : ~(c < m /\ m < i)
                       ELSE log[i].a[p + 1] = r

(* g(a, c=2.0) called as g(a): execute(gm, a, 2.0, executor="nvfuser") *)
C7_Witness ==
  /\ pc = "done"
  /\ raised = "none"
  /\ Len(args) = 2 /\ kwargs = <<>>
  /\ IsTensor(args[1].leaves[1]) /\ ~args[1].nested
  /\ args[2].leaves = <<Scalar>>
  /\ Len(gm.nodes) = 1
  /\ gm.nodes[1].args = <<Ref("in", 1), Ref("in", 2)>>
  /\ Cardinality(EventsOf("add_input")) = 1
  /\ Cardinality(EventsOf("define_constant")) = 1
  /\ \E i \in EventsOf("lower") : log[i].a[3].kind = "const"

DefinitionFailed == raised \in {"AttributeError", "LoweringError", "BackendError"}

(* C8: the definition scope, once acquired, is released before execute
   returns or raises; and when a step of the definition fails (no lowering
   rule, a failing registration, a failing rule) fusion.execute is never
   called, the graph is not run directly and no second Fusion is built. *)
C8_ScopeReleasedNoPartialExecute ==
  /\ (pc = "done" /\ EventsOf("enter") # {}) =>
        /\ scope = "released"
        /\ log[Len(log)].op = "exit"
        /\ Cardinality(EventsOf("exit")) = 1
  /\ scope = "open" <=> pc \in {"define", "out", "unwind"}
  /\ DefinitionFailed =>
        /\ EventsOf("execute") = {}
        /\ EventsOf("forward") = {}
        /\ Cardinality(EventsOf("Fusion")) = 1
        /\ pc \in {"unwind", "done"}

C8_Witness ==
  /\ pc = "done"
  /\ raised = "AttributeError"
  /\ scope = "released"
  /\ EventsOf("define_constant") # {}
  /\ EventsOf("add_input") # {}

(* C9: in a successful fusion call every add_input precedes the first
   lowering; the nodes are lowered in graph order, each rule getting fd first
   and otherwise only registered inputs, constants and results of earlier
   nodes; every add_output follows the last lowering; fusion.execute is
   called once, after every add_output and before the scope is released. *)
C9_OrderOfBackendCalls ==
  (pc = "done" /\ raised = "none" /\ executor = "nvfuser") =>
    /\ \A i \in EventsOf("add_input") : \A j \in EventsOf("lower") : i < j
    /\ Cardinality(EventsOf("lower")) = Len(gm.nodes)
    /\ \A i, j \in EventsOf("lower") : i < j <=> log[i].h.id < log[j].h.id
    /\ \A i \in EventsOf("lower") :
         /\ log[i].a[1] = FdHandle
         /\ \A p \in 2..Len(log[i].a) :
              /\ log[i].a[p].kind \in {"tv", "val", "const", "list"}
              /\ log[i].a[p].kind = "val" =>
                   \E j \in EventsOf("lower") : j < i /\ log[j].h = log[i].a[p]
              /\ log[i].a[p].kind = "tv" =>
                   \E j \in EventsOf("add_input") : j < i /\ log[j].h = log[i].a[p]
    /\ Cardinality(EventsOf("add_output")) = Len(flat_out)
    /\ \A i \in EventsOf("add_output") : \A j \in EventsOf("lower") : j < i
    /\ Cardinality(EventsOf("execute")) = 1
    /\ \A e \in EventsOf("execute") :
         /\ \A i \in EventsOf("add_output") : i < e
         /\ \A x \in EventsOf("exit") : e < x
         /\ \A n \in EventsOf("enter") : n < e

C9_Witness ==
  /\ pc = "done"
  /\ raised = "none"
  /\ executor = "nvfuser"
  /\ Cardinality(EventsOf("add_input")) >= 2
  /\ Cardinality(EventsOf("lower")) = 2
  /\ Cardinality(EventsOf("add_output")) >= 1

====
